---------------------------- MODULE Spec2Model ----------------------------
(***************************************************************************)
(* A model of pagerank.py: transition_model, sample_pagerank and           *)
(* iterate_pagerank over a link graph (corpus).                            *)
(*                                                                         *)
(* Python floats are IEEE-754 binary64 values.  They are modelled bit for  *)
(* bit: a float is a record [sign, m, e] of value sign * m * 2^e, where m  *)
(* is a natural number of exactly Precision bits (or zero), held as a      *)
(* little-endian sequence of limbs in base 2^15, because TLC's integers *)
(* are 32 bits wide.  Every arithmetic operation computes the              *)
(* exact result and rounds it once, to nearest, ties to even, as the       *)
(* hardware does.  All values the program computes on the modelled inputs  *)
(* lie between 2^-70 and 2, far inside the normal range, so subnormals,    *)
(* infinities and NaN are not modelled.                                    *)
(***************************************************************************)
EXTENDS Integers, Sequences, FiniteSets

-----------------------------------------------------------------------------
(* Natural numbers of arbitrary size: little-endian limb sequences, no     *)
(* high zero limb; zero is the empty sequence.                             *)

\* limbs hold 15 bits, so that a product of two limbs fits TLC's integers
Base == 2^15

\* Python float: 53 significant bits (sys.float_info.mant_dig)
Precision == 53

RECURSIVE Trim(_)
Trim(a) ==
    IF a = <<>> THEN <<>>
    ELSE IF a[Len(a)] = 0 THEN Trim(SubSeq(a, 1, Len(a) - 1))
    ELSE a

RECURSIVE Zeros(_)
Zeros(n) == IF n <= 0 THEN <<>> ELSE <<0>> \o Zeros(n - 1)

RECURSIVE BigFromInt(_)
BigFromInt(k) ==
    IF k = 0 THEN <<>> ELSE <<k % Base>> \o BigFromInt(k \div Base)

Limb(a, i) == IF i <= Len(a) THEN a[i] ELSE 0

RECURSIVE AddFrom(_, _, _, _)
AddFrom(a, b, i, carry) ==
    IF i > Len(a) /\ i > Len(b)
    THEN IF carry = 0 THEN <<>> ELSE <<carry>>
    ELSE <<(Limb(a, i) + Limb(b, i) + carry) % Base>>
         \o AddFrom(a, b, i + 1, (Limb(a, i) + Limb(b, i) + carry) \div Base)

BigAdd(a, b) == AddFrom(a, b, 1, 0)

\* a - b for a >= b
RECURSIVE SubFrom(_, _, _, _)
SubFrom(a, b, i, borrow) ==
    IF i > Len(a) THEN <<>>
    ELSE IF Limb(a, i) - Limb(b, i) - borrow < 0
         THEN <<Limb(a, i) - Limb(b, i) - borrow + Base>> \o SubFrom(a, b, i + 1, 1)
         ELSE <<Limb(a, i) - Limb(b, i) - borrow>> \o SubFrom(a, b, i + 1, 0)

BigSub(a, b) == Trim(SubFrom(a, b, 1, 0))

\* -1, 0, 1 as a < b, a = b, a > b
RECURSIVE CmpFrom(_, _, _)
CmpFrom(a, b, i) ==
    IF i = 0 THEN 0
    ELSE IF a[i] < b[i] THEN -1
    ELSE IF a[i] > b[i] THEN 1
    ELSE CmpFrom(a, b, i - 1)

BigCmp(a, b) ==
    IF Len(a) < Len(b) THEN -1
    ELSE IF Len(a) > Len(b) THEN 1
    ELSE CmpFrom(a, b, Len(a))

\* a * k for 0 <= k < Base
RECURSIVE MulFrom(_, _, _, _)
MulFrom(a, k, i, carry) ==
    IF i > Len(a)
    THEN IF carry = 0 THEN <<>> ELSE <<carry>>
    ELSE <<(a[i] * k + carry) % Base>>
         \o MulFrom(a, k, i + 1, (a[i] * k + carry) \div Base)

MulSmall(a, k) == Trim(MulFrom(a, k, 1, 0))

RECURSIVE MulAcc(_, _, _)
MulAcc(a, b, i) ==
    IF i > Len(b) THEN <<>>
    ELSE BigAdd(Zeros(i - 1) \o MulSmall(a, b[i]), MulAcc(a, b, i + 1))

BigMul(a, b) == Trim(MulAcc(a, b, 1))

\* [q |-> a \div k, r |-> a % k] for 0 < k < Base, by long division from the
\* highest limb down
RECURSIVE DivFrom(_, _, _, _)
DivFrom(a, k, j, rem) ==
    IF j = 0 THEN [q |-> <<>>, r |-> rem]
    ELSE LET rest == DivFrom(a, k, j - 1, (rem * Base + a[j]) % k)
         IN  [q |-> Append(rest.q, (rem * Base + a[j]) \div k), r |-> rest.r]

TrimQuotient(d) == [q |-> Trim(d.q), r |-> d.r]

DivSmall(a, k) == TrimQuotient(DivFrom(a, k, Len(a), 0))

RECURSIVE IntBitLen(_)
IntBitLen(k) == IF k = 0 THEN 0 ELSE 1 + IntBitLen(k \div 2)

LimbBits == IntBitLen(Base) - 1

BitLen(a) ==
    IF a = <<>> THEN 0 ELSE LimbBits * (Len(a) - 1) + IntBitLen(a[Len(a)])

ShiftLeft(a, s) ==
    IF a = <<>> THEN <<>>
    ELSE MulSmall(Zeros(s \div LimbBits) \o a, 2^(s % LimbBits))

\* a \div 2^s, and whether any of the s bits dropped was set
WithSticky(d, low) == [q |-> d.q, sticky |-> d.r # 0 \/ Trim(low) # <<>>]

ShiftRight(a, s) ==
    WithSticky(DivSmall(SubSeq(a, s \div LimbBits + 1, Len(a)), 2^(s % LimbBits)),
               SubSeq(a, 1, s \div LimbBits))

IsOdd(a) == a # <<>> /\ a[1] % 2 = 1

-----------------------------------------------------------------------------
(* Exact dyadic numbers sign * m * 2^e (m of any length), and floats: the  *)
(* dyadic numbers whose m has exactly Precision bits, and zero.            *)

Zero == [sign |-> 1, m |-> <<>>, e |-> 0]

Dyadic(sign, m, e) ==
    IF m = <<>> THEN Zero ELSE [sign |-> sign, m |-> m, e |-> e]

IsZero(x) == x.m = <<>>

\* q has Precision bits, or is 2^Precision after rounding up
Renormalize(sign, q, e) ==
    IF BitLen(q) > Precision
    THEN [sign |-> sign, m |-> DivSmall(q, 2).q, e |-> e + 1]
    ELSE [sign |-> sign, m |-> q, e |-> e]

\* half.q is the Precision leading bits, half.r the next bit, sticky whether
\* any bit after that is set: round to nearest, ties to even
RoundUp(half, sticky) ==
    IF half.r = 1 /\ (sticky \/ IsOdd(half.q))
    THEN BigAdd(half.q, <<1>>)
    ELSE half.q

RoundHalf(x, s, r) ==
    Renormalize(x.sign, RoundUp(DivSmall(r.q, 2), r.sticky), x.e + s)

\* x.m has s bits more than Precision (s > 0), or -s bits fewer
RoundBy(x, s) ==
    IF s <= 0
    THEN [sign |-> x.sign, m |-> ShiftLeft(x.m, -s), e |-> x.e + s]
    ELSE RoundHalf(x, s, ShiftRight(x.m, s - 1))

\* the float nearest to x, ties to even
Round(x) ==
    IF IsZero(x) THEN Zero ELSE RoundBy(x, BitLen(x.m) - Precision)

Min(a, b) == IF a < b THEN a ELSE b

\* sx * mx + sy * my by 2^e, for sx # sy, with c = BigCmp(mx, my)
DSubAligned(sx, sy, mx, my, e, c) ==
    IF c = 0 THEN Zero
    ELSE IF c > 0 THEN Dyadic(sx, BigSub(mx, my), e)
    ELSE Dyadic(sy, BigSub(my, mx), e)

DAddAligned(sx, sy, mx, my, e) ==
    IF sx = sy THEN Dyadic(sx, BigAdd(mx, my), e)
    ELSE DSubAligned(sx, sy, mx, my, e, BigCmp(mx, my))

\* exact sum
DAdd(x, y) ==
    IF IsZero(x) THEN y
    ELSE IF IsZero(y) THEN x
    ELSE DAddAligned(x.sign, y.sign,
                     ShiftLeft(x.m, x.e - Min(x.e, y.e)),
                     ShiftLeft(y.m, y.e - Min(x.e, y.e)),
                     Min(x.e, y.e))

DNeg(x) == IF IsZero(x) THEN Zero ELSE [x EXCEPT !.sign = -x.sign]

DAbs(x) == [x EXCEPT !.sign = 1]

\* exact product
DMul(x, y) ==
    IF IsZero(x) \/ IsZero(y) THEN Zero
    ELSE Dyadic(x.sign * y.sign, BigMul(x.m, y.m), x.e + y.e)

Sign(d) == IF IsZero(d) THEN 0 ELSE d.sign

\* -1, 0, 1 as x < y, x = y, x > y
DCmp(x, y) == Sign(DAdd(x, DNeg(y)))

\* float(k) for an int k
FromInt(k) ==
    Round(Dyadic(IF k < 0 THEN -1 ELSE 1, BigFromInt(IF k < 0 THEN -k ELSE k), 0))

One == FromInt(1)

\* Python's x + y, x - y, x * y, abs(x), x < y on floats
FAdd(x, y) == Round(DAdd(x, y))
FSub(x, y) == Round(DAdd(x, DNeg(y)))
FMul(x, y) == Round(DMul(x, y))
FAbs(x) == DAbs(x)
FLess(x, y) == DCmp(x, y) < 0

\* d.q is the quotient to 30 bits more than the dividend has; a set lowest bit
\* of the result stands for a non-zero remainder
QuotientBits(d) ==
    BigAdd(MulSmall(d.q, 2), IF d.r # 0 THEN <<1>> ELSE <<>>)

\* x / k for a float x and an int 0 < k < Base: the exact quotient, rounded once
FDivInt(x, k) ==
    IF IsZero(x) THEN Zero
    ELSE Round(Dyadic(x.sign, QuotientBits(DivSmall(Zeros(2) \o x.m, k)),
                      x.e - 2 * LimbBits - 1))

\* Python's x / k for an int k, which raises ZeroDivisionError for k = 0
ZeroDivisionError == [error |-> "ZeroDivisionError"]
IsError(v) == "error" \in DOMAIN v
FDiv(x, k) ==
    IF k = 0 THEN ZeroDivisionError
    ELSE FDivInt(IF k < 0 THEN DNeg(x) ELSE x, IF k < 0 THEN -k ELSE k)

-----------------------------------------------------------------------------
(* Bounds of the model and its inputs.                                     *)

\* a corpus has at most MaxPages pages and MaxLinks links
MaxPages == 3
MaxLinks == 3
\* sample_pagerank is called with n <= MaxSamples, on a corpus of at most
\* MaxSampleLinks links
MaxSamples == 6
MaxSampleLinks == 1

\* Page names, in the order the corpus dict lists its keys.
PageNames == <<"A", "B", "C", "D", "E", "F">>

FirstPages(k) == {PageNames[j] : j \in 1..k}

RECURSIVE LinkCount(_, _)
LinkCount(g, todo) ==
    IF todo = {} THEN 0
    ELSE LET p == CHOOSE q \in todo : TRUE
         IN  Cardinality(g[p]) + LinkCount(g, todo \ {p})

\* crawl() returns a dict from each page to the set of the other pages of the
\* corpus it links to: no link to itself, none to a page outside the corpus.
CorporaOf(k, links) ==
    {g \in [FirstPages(k) -> SUBSET FirstPages(k)] :
        /\ \A p \in FirstPages(k) : p \notin g[p]
        /\ LinkCount(g, FirstPages(k)) <= links}

Corpora == UNION {CorporaOf(k, MaxLinks) : k \in 0..MaxPages}

\* the corpora sample_pagerank is called with: the links, if any, are on the
\* first page
SampleCorpora ==
    {g \in UNION {CorporaOf(k, MaxSampleLinks) : k \in 0..MaxPages} :
        \A p \in DOMAIN g : g[p] # {} => p = PageNames[1]}

\* damping factors as fractions <<numerator, denominator>>; DAMPING is 17/20
Dampings == {<<1, 2>>, <<17, 20>>}
\* damping factors outside (0, 1)
BadDampings == {<<0, 1>>, <<1, 1>>}
\* the damping factors sample_pagerank is called with
SampleDampings == {<<17, 20>>, <<1, 1>>}

\* the float a fraction of two ints evaluates to (a literal such as 0.85 is
\* the float nearest to it, and so is the quotient of its two ints)
FloatOf(r) == FDiv(FromInt(r[1]), r[2])

-----------------------------------------------------------------------------
(* Python dicts.  A dict lists its keys in the order they were first      *)
(* stored: it is modelled as [keys |-> that list, at |-> key -> value].    *)
(* The corpus is an input and is not written to: it is a function from its *)
(* pages, which it lists in the order of PageNames.                        *)

RECURSIVE PagesFrom(_, _)
PagesFrom(corp, j) ==
    IF j > Len(PageNames) THEN <<>>
    ELSE (IF PageNames[j] \in DOMAIN corp THEN <<PageNames[j]>> ELSE <<>>)
         \o PagesFrom(corp, j + 1)

\* list(corpus), and the order of "for page in corpus"
Pages(corp) == PagesFrom(corp, 1)

\* dict()
EmptyDict == [keys |-> <<>>, at |-> <<>>]

\* a dict filled by a loop over the corpus: {key: value(key) for key in corpus}
OverCorpus(corp, values) == [keys |-> Pages(corp), at |-> values]

\* d[key] = value
Store(d, key, value) ==
    [keys |-> IF key \in DOMAIN d.at THEN d.keys ELSE Append(d.keys, key),
     at   |-> [k \in DOMAIN d.at \cup {key} |-> IF k = key THEN value ELSE d.at[k]]]

KeyError == [error |-> "KeyError"]
IndexError == [error |-> "IndexError"]
ValueError == [error |-> "ValueError"]

-----------------------------------------------------------------------------
(* transition_model(corpus, page, damping_factor)                          *)

\* a bug: only the pages linked to get an entry
LinkedDistributionLinkedOnly(corpus, page, random_prob, eq_prob) ==
    IF IsError(random_prob) THEN random_prob
    ELSE IF IsError(eq_prob) THEN eq_prob
    ELSE [keys |-> SelectSeq(Pages(corpus), LAMBDA key : key \in corpus[page]),
          at   |-> [key \in corpus[page] |-> FAdd(eq_prob, random_prob)]]

\* lines 73-77
LinkedDistribution(corpus, page, random_prob, eq_prob) ==
    IF IsError(random_prob) THEN random_prob
    ELSE IF IsError(eq_prob) THEN eq_prob
    ELSE OverCorpus(corpus,
             [key \in DOMAIN corpus |->
                 IF key \notin corpus[page] THEN random_prob
                 ELSE FAdd(eq_prob, random_prob)])

\* lines 79-80
UniformDistribution(corpus, uniform) ==
    IF IsError(uniform) THEN uniform
    ELSE OverCorpus(corpus, [key \in DOMAIN corpus |-> uniform])

\* a bug: no branch for a page without links
TransitionModelNoDanglingBranch(corpus, page, damping_factor) ==
    IF page \notin DOMAIN corpus THEN KeyError
    ELSE LinkedDistribution(corpus, page,
             FDiv(FSub(One, damping_factor), Cardinality(DOMAIN corpus)),
             FDiv(damping_factor, Cardinality(corpus[page])))

\* a bug: a page that is not in the corpus is taken for one without links
TransitionModelMissingAsDangling(corpus, page, damping_factor) ==
    IF page \in DOMAIN corpus /\ Cardinality(corpus[page]) > 0
    THEN LinkedDistribution(corpus, page,
             FDiv(FSub(One, damping_factor), Cardinality(DOMAIN corpus)),
             FDiv(damping_factor, Cardinality(corpus[page])))
    ELSE UniformDistribution(corpus, FDiv(One, Cardinality(DOMAIN corpus)))

\* lines 64-82
TransitionModel(corpus, page, damping_factor) ==
    IF page \notin DOMAIN corpus THEN KeyError
    ELSE IF Cardinality(corpus[page]) > 0
    THEN LinkedDistribution(corpus, page,
             FDiv(FSub(One, damping_factor), Cardinality(DOMAIN corpus)),
             FDiv(damping_factor, Cardinality(corpus[page])))
    ELSE UniformDistribution(corpus, FDiv(One, Cardinality(DOMAIN corpus)))

-----------------------------------------------------------------------------
(* State.                                                                  *)

VARIABLES
    call,               \* the function called
    corpus,             \* the link graph: page -> set of pages it links to
    damping_factor,     \* a float
    page,               \* transition_model's page argument
    n,                  \* sample_pagerank's sample count
    pc,                 \* where the call stands
    selected_page,      \* sample_pagerank: the current page of the walk
    i,                  \* sample_pagerank: iterations of "for i in range(n)" done
    pagerank_dict,      \* sample_pagerank: page -> visits; visits / n once returned
    dicts,              \* iterate_pagerank: the dict objects alive, by identity
    starting_pagerank,  \* iterate_pagerank: the object this name is bound to
    current_pagerank,   \* iterate_pagerank: the object this name is bound to
    page_index,         \* iterate_pagerank: position of "for page in corpus"
    result,             \* the mapping returned, once pc = "returned"
    raised              \* the exception raised, once pc = "raised"

vars == <<call, corpus, damping_factor, page, n, pc, selected_page, i, pagerank_dict,
          dicts, starting_pagerank, current_pagerank, page_index, result, raised>>

inputs == <<call, corpus, damping_factor, page, n>>
sampleVars == <<selected_page, i, pagerank_dict>>
iterateVars == <<dicts, starting_pagerank, current_pagerank, page_index>>

None == "none"

Idle ==
    /\ selected_page = None
    /\ i = 0
    /\ pagerank_dict = EmptyDict
    /\ dicts = <<>>
    /\ starting_pagerank = 0
    /\ current_pagerank = 0
    /\ page_index = 0
    /\ result = EmptyDict
    /\ raised = None

Return(value) ==
    /\ pc' = "returned"
    /\ result' = value
    /\ raised' = raised

Raise(exception) ==
    /\ pc' = "raised"
    /\ raised' = exception.error
    /\ result' = result

-----------------------------------------------------------------------------
(* A call of transition_model, lines 55-82.                                *)

InitTransition ==
    /\ call = "transition_model"
    /\ corpus \in Corpora
    /\ \E r \in Dampings \cup BadDampings : damping_factor = FloatOf(r)
    /\ page \in FirstPages(MaxPages)
    /\ n = 0
    /\ pc = "called"
    /\ Idle

TransitionReturn ==
    /\ call = "transition_model"
    /\ pc = "called"
    /\ ~IsError(TransitionModel(corpus, page, damping_factor))
    /\ Return(TransitionModel(corpus, page, damping_factor))
    /\ UNCHANGED <<inputs, sampleVars, iterateVars>>

TransitionRaise ==
    /\ call = "transition_model"
    /\ pc = "called"
    /\ IsError(TransitionModel(corpus, page, damping_factor))
    /\ Raise(TransitionModel(corpus, page, damping_factor))
    /\ UNCHANGED <<inputs, sampleVars, iterateVars>>

NextTransition == TransitionReturn \/ TransitionRaise

SpecTransition == InitTransition /\ [][NextTransition]_vars

-----------------------------------------------------------------------------
(* A call of sample_pagerank, lines 84-110.                                *)

InitSample ==
    /\ call = "sample_pagerank"
    /\ corpus \in SampleCorpora
    /\ \E r \in SampleDampings : damping_factor = FloatOf(r)
    /\ page = None
    /\ n \in -1..MaxSamples
    /\ pc = "called"
    /\ Idle

\* a bug: the starting page is counted as a visit
SampleStartCounted ==
    /\ call = "sample_pagerank"
    /\ pc = "called"
    /\ DOMAIN corpus # {}
    /\ selected_page' \in DOMAIN corpus
    /\ pagerank_dict' = Store(EmptyDict, selected_page', 1)
    /\ i' = 0
    /\ pc' = "sample_loop"
    /\ UNCHANGED <<inputs, iterateVars, result, raised>>

\* lines 93-95: random.choice(list(corpus)) draws any page of the corpus
SampleStart ==
    /\ call = "sample_pagerank"
    /\ pc = "called"
    /\ DOMAIN corpus # {}
    /\ selected_page' \in DOMAIN corpus
    /\ pagerank_dict' = EmptyDict
    /\ i' = 0
    /\ pc' = "sample_loop"
    /\ UNCHANGED <<inputs, iterateVars, result, raised>>

\* line 95: random.choice of an empty list raises IndexError
SampleStartRaise ==
    /\ call = "sample_pagerank"
    /\ pc = "called"
    /\ DOMAIN corpus = {}
    /\ Raise(IndexError)
    /\ UNCHANGED <<inputs, sampleVars, iterateVars>>

\* random.choices(list(prob), weights=prob.values(), k=1).pop(): any page whose
\* weight is not zero (the weights here are never negative and total 1)
Choices(prob) == {key \in DOMAIN prob.at : ~IsZero(prob.at[key])}

\* a bug: the counter of a page seen before is set to 1 again
CountForgetsIncrement(d, key) == Store(d, key, 1)

\* lines 102-105
Count(d, key) ==
    IF key \in DOMAIN d.at THEN Store(d, key, d.at[key] + 1) ELSE Store(d, key, 1)

\* lines 97-105: one iteration of the loop
SampleStep ==
    /\ pc = "sample_loop"
    /\ i < n
    /\ LET prob == TransitionModel(corpus, selected_page, damping_factor)
       IN  \E drawn \in Choices(prob) :
              /\ selected_page' = drawn
              /\ pagerank_dict' = Count(pagerank_dict, drawn)
    /\ i' = i + 1
    /\ UNCHANGED <<inputs, pc, iterateVars, result, raised>>

\* lines 107-108
Normalized(d, samples) ==
    [keys |-> d.keys,
     at   |-> [key \in DOMAIN d.at |-> FDiv(FromInt(d.at[key]), samples)]]

\* lines 107-110: the loop is over, every counter of pagerank_dict is replaced
\* by its quotient by n, and pagerank_dict is returned
SampleReturn ==
    /\ pc = "sample_loop"
    /\ i >= n
    /\ pagerank_dict' = Normalized(pagerank_dict, n)
    /\ Return(pagerank_dict')
    /\ UNCHANGED <<inputs, selected_page, i, iterateVars>>

NextSample == SampleStart \/ SampleStartRaise \/ SampleStep \/ SampleReturn

SpecSample == InitSample /\ [][NextSample]_vars

-----------------------------------------------------------------------------
(* A call of iterate_pagerank, lines 113-149.                              *)
(*                                                                         *)
(* starting_pagerank and current_pagerank are names bound to dict objects; *)
(* dicts maps each live object's identity to its contents, so that two     *)
(* names bound to one object would see each other's writes.                *)

\* the convergence threshold, line 144
Threshold == FDiv(FromInt(1), 1000)

ObjectIds == {1, 2, 3}

\* line 128
InitialRanks(corp) ==
    OverCorpus(corp, [key \in DOMAIN corp |-> FDiv(One, Cardinality(DOMAIN corp))])

\* a bug: the rank of a page without links is given to no page
AddContributionLinkedOnly(corp, ranks, target, ref_page, temp_prob) ==
    IF target \in corp[ref_page]
    THEN FAdd(temp_prob, FDiv(ranks.at[ref_page], Cardinality(corp[ref_page])))
    ELSE temp_prob

\* lines 134-137: what ref_page adds to temp_prob
AddContribution(corp, ranks, target, ref_page, temp_prob) ==
    IF target \in corp[ref_page]
    THEN FAdd(temp_prob, FDiv(ranks.at[ref_page], Cardinality(corp[ref_page])))
    ELSE IF Cardinality(corp[ref_page]) = 0
    THEN FAdd(temp_prob, FDiv(ranks.at[ref_page], Cardinality(DOMAIN corp)))
    ELSE temp_prob

\* lines 132-137: temp_prob after the loop over the pages refs[j], refs[j+1], ...
RECURSIVE Contributions(_, _, _, _, _, _)
Contributions(corp, ranks, target, refs, j, temp_prob) ==
    IF j > Len(refs) THEN temp_prob
    ELSE Contributions(corp, ranks, target, refs, j + 1,
                       AddContribution(corp, ranks, target, refs[j], temp_prob))

\* lines 132-139: the new rank of target, from the ranks read
NewRank(corp, ranks, damping, target) ==
    FAdd(FMul(Contributions(corp, ranks, target, Pages(corp), 1, Zero), damping),
         FDiv(FSub(One, damping), Cardinality(DOMAIN corp)))

\* max of a non-empty list of floats
RECURSIVE MaxFrom(_, _, _)
MaxFrom(list, j, best) ==
    IF j > Len(list) THEN best
    ELSE MaxFrom(list, j + 1, IF FLess(best, list[j]) THEN list[j] ELSE best)

Max(list) == MaxFrom(list, 2, list[1])

\* line 143: [abs(current[x] - starting[x]) for x in starting]
Differences(current, starting) ==
    [j \in 1..Len(starting.keys) |->
        FAbs(FSub(current.at[starting.keys[j]], starting.at[starting.keys[j]]))]

InitIterate ==
    /\ call = "iterate_pagerank"
    /\ corpus \in Corpora
    /\ \E r \in Dampings : damping_factor = FloatOf(r)
    /\ page = None
    /\ n = 0
    /\ pc = "called"
    /\ Idle

\* lines 123-128
IterateStart ==
    /\ call = "iterate_pagerank"
    /\ pc = "called"
    /\ starting_pagerank' = 1
    /\ current_pagerank' = 2
    /\ dicts' = [o \in {1, 2} |-> IF o = 1 THEN InitialRanks(corpus) ELSE EmptyDict]
    /\ page_index' = 1
    /\ pc' = "iterate_pass"
    /\ UNCHANGED <<inputs, sampleVars, result, raised>>

\* lines 131-141: one iteration of "for page in corpus"
IterateUpdate ==
    /\ pc = "iterate_pass"
    /\ page_index <= Len(Pages(corpus))
    /\ dicts' = [dicts EXCEPT ![current_pagerank] =
                    Store(@, Pages(corpus)[page_index],
                          NewRank(corpus, dicts[starting_pagerank], damping_factor,
                                  Pages(corpus)[page_index]))]
    /\ page_index' = page_index + 1
    /\ UNCHANGED <<inputs, sampleVars, pc, starting_pagerank, current_pagerank,
                   result, raised>>

\* line 143: max of an empty list raises ValueError
IterateRaise ==
    /\ pc = "iterate_pass"
    /\ page_index > Len(Pages(corpus))
    /\ dicts[starting_pagerank].keys = <<>>
    /\ Raise(ValueError)
    /\ UNCHANGED <<inputs, sampleVars, iterateVars>>

\* a bug: the smallest difference is compared, not the largest
RECURSIVE MinFrom(_, _, _)
MinFrom(list, j, best) ==
    IF j > Len(list) THEN best
    ELSE MinFrom(list, j + 1, IF FLess(list[j], best) THEN list[j] ELSE best)

ConvergedOnMin ==
    FLess(MinFrom(Differences(dicts[current_pagerank], dicts[starting_pagerank]), 2,
                  Differences(dicts[current_pagerank], dicts[starting_pagerank])[1]),
          Threshold)

\* lines 143-144
Converged ==
    FLess(Max(Differences(dicts[current_pagerank], dicts[starting_pagerank])),
          Threshold)

\* a bug: the ranks just computed are returned
IterateReturnCurrent ==
    /\ pc = "iterate_pass"
    /\ page_index > Len(Pages(corpus))
    /\ dicts[starting_pagerank].keys # <<>>
    /\ Converged
    /\ Return(dicts[current_pagerank])
    /\ UNCHANGED <<inputs, sampleVars, iterateVars>>

\* lines 143-145 and 149
IterateReturn ==
    /\ pc = "iterate_pass"
    /\ page_index > Len(Pages(corpus))
    /\ dicts[starting_pagerank].keys # <<>>
    /\ Converged
    /\ Return(dicts[starting_pagerank])
    /\ UNCHANGED <<inputs, sampleVars, iterateVars>>

\* current_pagerank.copy(): a new object; the one starting_pagerank was bound
\* to is dropped
FreshObject == CHOOSE o \in ObjectIds : o \notin {starting_pagerank, current_pagerank}

\* a bug: the new ranks are not copied, both names are bound to one object
IterateNextPassAliased ==
    /\ pc = "iterate_pass"
    /\ page_index > Len(Pages(corpus))
    /\ dicts[starting_pagerank].keys # <<>>
    /\ ~Converged
    /\ starting_pagerank' = current_pagerank
    /\ dicts' = [o \in {current_pagerank} |-> dicts[current_pagerank]]
    /\ page_index' = 1
    /\ UNCHANGED <<inputs, sampleVars, pc, current_pagerank, result, raised>>

\* lines 143-147, and back to line 131
IterateNextPass ==
    /\ pc = "iterate_pass"
    /\ page_index > Len(Pages(corpus))
    /\ dicts[starting_pagerank].keys # <<>>
    /\ ~Converged
    /\ starting_pagerank' = FreshObject
    /\ dicts' = [o \in {FreshObject, current_pagerank} |-> dicts[current_pagerank]]
    /\ page_index' = 1
    /\ UNCHANGED <<inputs, sampleVars, pc, current_pagerank, result, raised>>

NextIterate ==
    \/ IterateStart
    \/ IterateUpdate
    \/ IterateRaise
    \/ IterateReturn
    \/ IterateNextPass

SpecIterate == InitIterate /\ [][NextIterate]_vars

\* where in the code the call is
position == <<pc, page_index>>

\* The call executes its next statement. Every step of NextIterate changes
\* position, and a call that has neither returned nor raised can take one.
Proceed ==
    /\ pc \in {"called", "iterate_pass"}
    /\ pc' \in {"iterate_pass", "returned", "raised"}
    /\ page_index' \in 1..(Len(Pages(corpus)) + 1)

\* the interpreter runs the call to its end
LiveIterate == SpecIterate /\ WF_position(Proceed)

-----------------------------------------------------------------------------
(* A call of any of the three functions.                                   *)

Init == InitTransition \/ InitSample \/ InitIterate

Next == NextTransition \/ NextSample \/ NextIterate

Spec == Init /\ [][Next]_vars

-----------------------------------------------------------------------------
(* What the claims speak of.                                               *)

\* damping_factor lies in the open interval (0, 1)
ValidDamping == FLess(Zero, damping_factor) /\ FLess(damping_factor, One)

\* the sum of the values of a dict as a real number, with no rounding
RECURSIVE ExactSumOver(_, _)
ExactSumOver(d, todo) ==
    IF todo = {} THEN Zero
    ELSE LET key == CHOOSE k \in todo : TRUE
         IN  DAdd(d.at[key], ExactSumOver(d, todo \ {key}))

ExactSum(d) == ExactSumOver(d, DOMAIN d.at)

\* Python's sum(d.values()): float additions from the left, in the dict's order
RECURSIVE PythonSumFrom(_, _, _)
PythonSumFrom(d, j, acc) ==
    IF j > Len(d.keys) THEN acc
    ELSE PythonSumFrom(d, j + 1, FAdd(acc, d.at[d.keys[j]]))

PythonSum(d) == PythonSumFrom(d, 1, Zero)

\* 2^-30, which is less than 1e-9
Tolerance == Dyadic(1, <<1>>, -30)

\* |x - 1| <= Tolerance
NearOne(x) == DCmp(DAbs(DAdd(x, DNeg(One))), Tolerance) <= 0

NonNegative(d) == \A key \in DOMAIN d.at : d.at[key].sign = 1

\* the call is over
Ended == pc \in {"returned", "raised"}

-----------------------------------------------------------------------------
(* transition_model                                                        *)

\* C1: for a non-empty corpus, a page of it and a damping factor in (0, 1),
\* transition_model returns a mapping whose keys are exactly the pages of the
\* corpus and whose values sum to 1.0 within 2^-30 (the spec's 1.0 +- 1e-9).
C1_TransitionIsDistribution ==
    (call = "transition_model" /\ Ended /\ page \in DOMAIN corpus /\ ValidDamping)
    => /\ pc = "returned"
       /\ DOMAIN result.at = DOMAIN corpus
       /\ Len(result.keys) = Cardinality(DOMAIN corpus)
       /\ NearOne(ExactSum(result))

\* a linked page of a three-page corpus, damping 0.85: the values sum to 1.0
\* only after rounding
C1_Witness ==
    /\ call = "transition_model"
    /\ pc = "returned"
    /\ Cardinality(DOMAIN corpus) = 3
    /\ page \in DOMAIN corpus
    /\ corpus[page] # {}
    /\ ValidDamping
    /\ ExactSum(result) # One

\* C2: transition_model agrees entry by entry with the reference definition:
\* for a dangling page every entry is 1/|corpus|, and no division by zero is
\* ever raised; for a linked page, a page it does not link to gets
\* (1-damping)/|corpus| and a page it links to gets
\* (1-damping)/|corpus| + damping/|outbound(page)|.
C2_TransitionPointwise ==
    /\ raised # "ZeroDivisionError"
    /\ (call = "transition_model" /\ Ended /\ page \in DOMAIN corpus)
       => /\ pc = "returned"
          /\ \A q \in DOMAIN corpus :
                result.at[q] =
                    IF corpus[page] = {}
                    THEN FDiv(One, Cardinality(DOMAIN corpus))
                    ELSE IF q \notin corpus[page]
                    THEN FDiv(FSub(One, damping_factor), Cardinality(DOMAIN corpus))
                    ELSE FAdd(FDiv(FSub(One, damping_factor), Cardinality(DOMAIN corpus)),
                              FDiv(damping_factor, Cardinality(corpus[page])))

\* a dangling page of a corpus in which another page has links
C2_Witness ==
    /\ call = "transition_model"
    /\ pc = "returned"
    /\ page \in DOMAIN corpus
    /\ corpus[page] = {}
    /\ \E q \in DOMAIN corpus : corpus[q] # {}
    /\ \A q \in DOMAIN corpus : result.at[q] = FDiv(One, Cardinality(DOMAIN corpus))

-----------------------------------------------------------------------------
(* sample_pagerank                                                         *)

\* the sum of the visit counters
RECURSIVE CountSumOver(_, _)
CountSumOver(d, todo) ==
    IF todo = {} THEN 0
    ELSE LET key == CHOOSE k \in todo : TRUE
         IN  d.at[key] + CountSumOver(d, todo \ {key})

CountSum(d) == CountSumOver(d, DOMAIN d.at)

\* the starting page is not counted, after k steps the counters sum to k, and
\* only pages of the corpus are counted
C3_Counters ==
    (call = "sample_pagerank" /\ pc = "sample_loop")
    => /\ DOMAIN pagerank_dict.at \subseteq DOMAIN corpus
       /\ \A key \in DOMAIN pagerank_dict.at : pagerank_dict.at[key] >= 1
       /\ CountSum(pagerank_dict) = i
       /\ i = 0 => pagerank_dict = EmptyDict

\* a step of the loop adds one to the counter of the page drawn, and to no other
C3_StepCountsTheDraw ==
    (call = "sample_pagerank" /\ pc = "sample_loop" /\ i' = i + 1)
    => /\ selected_page' \in DOMAIN corpus
       /\ DOMAIN pagerank_dict'.at = DOMAIN pagerank_dict.at \cup {selected_page'}
       /\ \A key \in DOMAIN pagerank_dict'.at :
             pagerank_dict'.at[key] =
                 (IF key \in DOMAIN pagerank_dict.at THEN pagerank_dict.at[key] ELSE 0)
                 + (IF key = selected_page' THEN 1 ELSE 0)

\* the return for n >= 1 comes after n steps and replaces every counter by the
\* float counter/n: the dict returned is pagerank_dict, its keys unchanged
C3_ReturnDivides ==
    (call = "sample_pagerank" /\ pc = "sample_loop" /\ pc' = "returned" /\ n >= 1)
    => /\ i = n
       /\ CountSum(pagerank_dict) = n
       /\ result' = pagerank_dict'
       /\ result'.keys = pagerank_dict.keys
       /\ DOMAIN result'.at = DOMAIN pagerank_dict.at
       /\ \A key \in DOMAIN pagerank_dict.at :
             result'.at[key] = FDiv(FromInt(pagerank_dict.at[key]), n)

\* the values returned for n >= 1: c/n with 1 <= c <= n, for pages of the corpus
C3_Returned ==
    (call = "sample_pagerank" /\ pc = "returned" /\ n >= 1)
    => /\ i = n
       /\ result = pagerank_dict
       /\ DOMAIN result.at \subseteq DOMAIN corpus
       /\ \A key \in DOMAIN result.at :
             /\ result.at[key].sign = 1
             /\ \E c \in 1..n : result.at[key] = FDiv(FromInt(c), n)

\* C3 as stated: the values returned for n >= 1 (and a damping factor in
\* (0, 1)) sum to exactly 1.0, be it as Python sums them or as real numbers.
C3_SumExactlyOne ==
    (call = "sample_pagerank" /\ pc = "returned" /\ n >= 1 /\ ValidDamping)
    => (PythonSum(result) = One \/ ExactSum(result) = One)

\* C3, amended: in sample_pagerank with n >= 1 the starting page is not counted,
\* each of the n steps adds one to the counter of exactly the page drawn, a page
\* of the corpus, so that after k steps the counters sum to k; the values
\* returned are the floats count/n, non-negative, keyed only by pages of the
\* corpus, and they sum to 1.0 within 2^-30, not always to exactly 1.0.
C3_SampleCounts ==
    /\ [](C3_Counters /\ C3_Returned)
    /\ []((call = "sample_pagerank" /\ pc = "returned" /\ n >= 1)
          => (NearOne(PythonSum(result)) /\ NearOne(ExactSum(result))))
    /\ [][C3_StepCountsTheDraw /\ C3_ReturnDivides]_vars

\* six samples over three pages, returned with a sum that is not 1.0
C3_Witness ==
    /\ call = "sample_pagerank"
    /\ pc = "returned"
    /\ n = 6
    /\ ValidDamping
    /\ Len(result.keys) = 3
    /\ PythonSum(result) # One
    /\ NearOne(PythonSum(result))

\* C7 as stated: a call of sample_pagerank with n < 1, or with a damping
\* factor outside (0, 1), returns no mapping.
C7_InvalidScalarsRejected ==
    (call = "sample_pagerank" /\ (n < 1 \/ ~ValidDamping)) => pc # "returned"

-----------------------------------------------------------------------------
(* iterate_pagerank                                                        *)

\* |new rank of key - ranks[key]| < 0.001, the new rank being the one a pass
\* over ranks computes
Settled(ranks, key) ==
    FLess(FAbs(FSub(NewRank(corpus, ranks, damping_factor, key), ranks.at[key])),
          Threshold)

\* during a pass the two names are bound to two objects, and every new rank
\* written so far is the one computed from the ranks starting_pagerank holds
C4_PassState ==
    (call = "iterate_pagerank" /\ pc = "iterate_pass")
    => /\ starting_pagerank # current_pagerank
       /\ \A j \in 1..(page_index - 1) :
             dicts[current_pagerank].at[Pages(corpus)[j]] =
                 NewRank(corpus, dicts[starting_pagerank], damping_factor,
                         Pages(corpus)[j])

\* a step within a pass leaves the old ranks as they are; the step that ends a
\* pass without returning binds starting_pagerank to a copy of the new ranks,
\* an object of its own
C4_PassStep ==
    (call = "iterate_pagerank" /\ pc = "iterate_pass" /\ pc' = "iterate_pass")
    => IF page_index <= Len(Pages(corpus))
       THEN /\ starting_pagerank' = starting_pagerank
            /\ dicts'[starting_pagerank'] = dicts[starting_pagerank]
       ELSE /\ dicts'[starting_pagerank'] = dicts[current_pagerank]
            /\ starting_pagerank' # current_pagerank'
            /\ page_index' = 1

\* C4: in every pass of iterate_pagerank each page's new rank is computed only
\* from the ranks of the previous pass: no value written during the pass is
\* read in it, and the old ranks are replaced by the new ones, as a copy and
\* not an alias, only after every page's new rank has been computed.
C4_Jacobi == []C4_PassState /\ [][C4_PassStep]_vars

\* the end of a second or later pass, with new ranks that differ from the old
C4_Witness ==
    /\ call = "iterate_pagerank"
    /\ pc = "iterate_pass"
    /\ page_index > Len(Pages(corpus))
    /\ starting_pagerank # 1
    /\ dicts[current_pagerank] # dicts[starting_pagerank]

\* an entry for every page of the corpus, no negative value, and a sum of 1.0
\* within 2^-30 (the spec's 1.0 +- 1e-6)
IsDistribution(d) ==
    /\ DOMAIN d.at = DOMAIN corpus
    /\ NonNegative(d)
    /\ NearOne(ExactSum(d))

\* C5: for a non-empty corpus (pages without links included) and a damping
\* factor in (0, 1), the old ranks of every pass, the new ranks of every
\* finished pass and the mapping returned are distributions over the pages of
\* the corpus: no probability mass is lost or created in a pass.
C5_RanksAreDistributions ==
    (call = "iterate_pagerank" /\ DOMAIN corpus # {} /\ ValidDamping)
    => /\ pc = "iterate_pass" => IsDistribution(dicts[starting_pagerank])
       /\ (pc = "iterate_pass" /\ page_index > Len(Pages(corpus)))
             => IsDistribution(dicts[current_pagerank])
       /\ pc = "returned" => IsDistribution(result)
       /\ pc # "raised"

\* A -> B, B -> C, C without links, damping 0.85: returned after several passes
C5_Witness ==
    /\ call = "iterate_pagerank"
    /\ corpus = [A |-> {"B"}, B |-> {"C"}, C |-> {}]
    /\ damping_factor = FloatOf(<<17, 20>>)
    /\ pc = "returned"
    /\ result # InitialRanks(corpus)
    /\ IsDistribution(result)

\* a pass is not left before its last page; at its end the call returns if
\* every page's rank moved by less than 0.001, and starts another pass if not
C6_StopRule ==
    (call = "iterate_pagerank" /\ pc = "iterate_pass" /\ DOMAIN corpus # {})
    => IF page_index <= Len(Pages(corpus))
       THEN pc' = "iterate_pass"
       ELSE IF \A x \in DOMAIN corpus :
                  FLess(FAbs(FSub(dicts[current_pagerank].at[x],
                                  dicts[starting_pagerank].at[x])), Threshold)
       THEN pc' = "returned"
       ELSE pc' = "iterate_pass" /\ page_index' = 1

\* C6: for a non-empty corpus and a damping factor in (0, 1), iterate_pagerank
\* terminates: it reaches a pass in which no page's rank moves by 0.001 or
\* more, returns at the first such pass, and at no pass before it.
C6_Terminates ==
    /\ (call = "iterate_pagerank" /\ DOMAIN corpus # {} /\ ValidDamping)
          ~> (pc = "returned")
    /\ [][C6_StopRule]_vars

\* returned after more than one pass
C6_Witness ==
    /\ call = "iterate_pagerank"
    /\ pc = "returned"
    /\ starting_pagerank # 1
    /\ \A x \in DOMAIN corpus :
          FLess(FAbs(FSub(dicts[current_pagerank].at[x],
                          dicts[starting_pagerank].at[x])), Threshold)

\* C10: the mapping iterate_pagerank returns is the old ranks of its last pass,
\* not the ranks that pass computed; one more pass over it moves every page's
\* rank by less than 0.001; and if the first pass meets the threshold, it is
\* the uniform distribution 1/|corpus|.
C10_ReturnsOldRanks ==
    (call = "iterate_pagerank" /\ pc = "returned")
    => /\ result = dicts[starting_pagerank]
       /\ \A key \in DOMAIN corpus :
             /\ dicts[current_pagerank].at[key] =
                    NewRank(corpus, result, damping_factor, key)
             /\ Settled(result, key)
       /\ (\A key \in DOMAIN corpus : Settled(InitialRanks(corpus), key))
             => result = InitialRanks(corpus)

\* returned after more than one pass, the ranks returned not being the last
\* computed
C10_Witness ==
    /\ call = "iterate_pagerank"
    /\ pc = "returned"
    /\ result # InitialRanks(corpus)
    /\ result # dicts[current_pagerank]
    /\ result = dicts[starting_pagerank]

-----------------------------------------------------------------------------
(* all three functions                                                     *)

\* C8: transition_model called with a page that is not in the corpus, and any
\* of the three functions called with an empty corpus, ends by raising an
\* exception (KeyError, IndexError, ValueError) and returns no mapping; no
\* division by zero is performed.
C8_InvalidGraphRejected ==
    /\ raised # "ZeroDivisionError"
    /\ (call = "transition_model" /\ page \notin DOMAIN corpus /\ pc # "called")
          => (pc = "raised" /\ raised = "KeyError")
    /\ (call = "sample_pagerank" /\ DOMAIN corpus = {} /\ pc # "called")
          => (pc = "raised" /\ raised = "IndexError")
    /\ (call = "iterate_pagerank" /\ DOMAIN corpus = {} /\ pc # "called")
          => \/ pc = "raised" /\ raised = "ValueError"
             \/ pc = "iterate_pass" /\ dicts[current_pagerank] = EmptyDict

\* iterate_pagerank on the empty corpus has raised ValueError
C8_Witness ==
    /\ call = "iterate_pagerank"
    /\ DOMAIN corpus = {}
    /\ pc = "raised"
    /\ raised = "ValueError"

\* C9: for the corpus of a single page A without links both algorithms return
\* exactly {A: 1.0}: sample_pagerank for every n >= 1, every draw being A, and
\* iterate_pagerank at the end of its first pass.
C9_SinglePage ==
    corpus = [A |-> {}]
    => /\ (call = "sample_pagerank" /\ pc = "sample_loop" /\ i >= 1)
          => pagerank_dict = [keys |-> <<"A">>, at |-> [A |-> i]]
       /\ (call = "sample_pagerank" /\ pc = "returned" /\ n >= 1)
          => /\ result = [keys |-> <<"A">>, at |-> [A |-> One]]
             /\ i = n
       /\ (call = "iterate_pagerank" /\ pc = "returned")
          => /\ result = [keys |-> <<"A">>, at |-> [A |-> One]]
             /\ starting_pagerank = 1
       /\ (call = "iterate_pagerank" /\ pc = "iterate_pass" /\ page_index > 1)
          => /\ starting_pagerank = 1
             /\ Settled(dicts[starting_pagerank], "A")

\* sample_pagerank has returned {A: 1.0} after several draws
C9_Witness ==
    /\ corpus = [A |-> {}]
    /\ call = "sample_pagerank"
    /\ n > 1
    /\ pc = "returned"
    /\ result = [keys |-> <<"A">>, at |-> [A |-> One]]

=============================================================================
